---- MODULE Spec2Model ----
\* Model of derive/src/from_args.rs: the #[derive(FromArgs)] generator.
\* A struct declaration is read field by field; each field's #[pyarg(...)]
\* attributes are parsed into a parameter kind and a default, and one binding
\* expression is emitted per field.  The emitted from_args is then run on an
\* argument bundle to observe what the emitted expressions do.
EXTENDS Naturals, Sequences, FiniteSets

VARIABLES input, pc, idx, fields_out, result, retrieved, bound, call_result

vars == <<input, pc, idx, fields_out, result, retrieved, bound, call_result>>

\* ---------------------------------------------------------------- bounds
\* Longest list of modifiers after the classification keyword of one attribute.
MaxMods == 2
\* Most attributes on one field.
MaxAttrs == 2
\* Most fields of one struct.
MaxFields == 2

\* ------------------------------------------------- Option / Result values
\* Option<T>: the empty tuple is None, a one-element tuple is Some(x).
None == <<>>
Some(x) == <<x>>

\* Result<T, Diagnostic>.
Ok(x) == [ok |-> TRUE, v |-> x]
Err(d) == [ok |-> FALSE, v |-> d]

\* err_span!(item, msg): a diagnostic tied to the item's source span.
err_span(item, msg) == [msg |-> msg, span |-> item.span]

\* ------------------------------------------------------------ identifiers
\* Identifiers are character sequences, so that starts_with is computed.
id_verbose == <<"v", "e", "r", "b", "o", "s", "e">>
id_count == <<"c", "o", "u", "n", "t">>
id_rest == <<"r", "e", "s", "t">>
id_phantom == <<"_", "p", "h", "a", "n", "t", "o", "m">>
id_phantom_t == id_phantom \o <<"_", "t">>
id_phanto == <<"_", "p", "h", "a", "n", "t", "o">>

starts_with(s, prefix) ==
    /\ Len(s) >= Len(prefix)
    /\ SubSeq(s, 1, Len(prefix)) = prefix

\* --------------------------------------------------------- ParameterKind
ParameterKind == {"PositionalOnly", "PositionalOrKeyword", "KeywordOnly", "Flatten"}

from_ident(ident) ==
    CASE ident = "positional" -> Some("PositionalOnly")
      [] ident = "any" -> Some("PositionalOrKeyword")
      [] ident = "named" -> Some("KeywordOnly")
      [] ident = "flatten" -> Some("Flatten")
      [] OTHER -> None

\* ------------------------------------------------------- attribute tokens
\* A literal: Lit::Str(val), Lit::Bool(val), or no literal at all.
NoLit == [ty |-> "None", val |-> ""]
LitStr(s) == [ty |-> "Str", val |-> s]
LitBool(s) == [ty |-> "Bool", val |-> s]

\* One argument of the attribute's list.  nm is the NestedMeta shape it parses
\* to (Path, NameValue, List, Lit) or "Invalid" for tokens that are no
\* NestedMeta at all (e.g. default = foo, whose value is not a literal).
\* span is the token's place in the source: <<field, attribute, argument>>.
MetaPath(k) == [nm |-> "Path", id |-> k, lit |-> NoLit]
MetaNameValue(k, l) == [nm |-> "NameValue", id |-> k, lit |-> l]
MetaList(k) == [nm |-> "List", id |-> k, lit |-> NoLit]
NestedLit(l) == [nm |-> "Lit", id |-> "", lit |-> l]
InvalidTokens == [nm |-> "Invalid", id |-> "", lit |-> NoLit]

\* LitStr::parse::<Expr>(): the string's content re-parsed as an expression.
\* The expression is kept as its token text; a string that is no expression
\* is a syn error at the literal.
ExprSources == {"false", "1 + 1"}

parse_expr(arg) ==
    IF arg.lit.val \in ExprSources
    THEN Ok(<<arg.lit.val>>)
    ELSE Err(err_span(arg, "syn: expected expression"))

\* parse_quote!(::std::default::Default::default())
DefaultDefault == <<"::std::default::Default::default()">>

\* Attribute::parse_meta(): the whole attribute is parsed at once.  It fails
\* when the attribute's tokens are no Meta, which includes any argument of
\* the list that is no NestedMeta; the error is at the first such token.
RECURSIVE first_invalid(_, _)
first_invalid(nested, i) ==
    IF i > Len(nested) THEN None
    ELSE IF nested[i].nm = "Invalid" THEN Some(nested[i])
    ELSE first_invalid(nested, i + 1)

parse_meta(attr) ==
    IF first_invalid(attr.nested, 1) # None
    THEN Err(err_span(first_invalid(attr.nested, 1)[1], "syn: expected literal"))
    ELSE Ok(attr)

\* ----------------------------------------------------------- ArgAttribute
\* ArgAttribute { kind, default }.  default: Option<DefaultValue>, and
\* DefaultValue = Option<Expr>, where None stands for Default::default().
ArgAttribute(kind, default) == [kind |-> kind, default |-> default]

\* Variant of parse_path_arg that lets an unknown key pass.
parse_path_arg_lenient(self, arg) ==
    IF arg.id = "default" \/ arg.id = "optional"
    THEN IF self.default = None
         THEN Ok([self EXCEPT !.default = Some(None)])
         ELSE Ok(self)
    ELSE Ok(self)

\* parse_argument, the arm NestedMeta::Meta(Meta::Path(path)): a bare default
\* (or optional) sets the default unless one is set.  path_eq(path, s) is the
\* path being the single ident s.
parse_path_arg(self, arg) ==
    IF arg.id = "default" \/ arg.id = "optional"
    THEN IF self.default = None
         THEN Ok([self EXCEPT !.default = Some(None)])
         ELSE Ok(self)
    ELSE Err(err_span(arg, "Unrecognised pyarg attribute"))

\* Variant of parse_name_value_arg without the "Default already set" test:
\* the last default = "<expr>" wins.
parse_name_value_arg_last_wins(self, arg) ==
    IF arg.id = "default"
    THEN IF arg.lit.ty = "Str"
         THEN IF parse_expr(arg).ok
              THEN Ok([self EXCEPT !.default = Some(Some(parse_expr(arg).v))])
              ELSE parse_expr(arg)
         ELSE Err(err_span(arg, "Expected string value for default argument"))
    ELSE Err(err_span(arg, "Unrecognised pyarg attribute"))

\* Variant of parse_name_value_arg that takes any literal's text as the
\* expression.
parse_name_value_arg_any_lit(self, arg) ==
    IF arg.id = "default"
    THEN IF self.default # None /\ self.default[1] # None
         THEN Err(err_span(arg, "Default already set"))
         ELSE IF parse_expr(arg).ok
         THEN Ok([self EXCEPT !.default = Some(Some(parse_expr(arg).v))])
         ELSE parse_expr(arg)
    ELSE Err(err_span(arg, "Unrecognised pyarg attribute"))

\* parse_argument, the arm NestedMeta::Meta(Meta::NameValue(name_value)).
parse_name_value_arg(self, arg) ==
    IF arg.id = "default"
    THEN IF self.default # None /\ self.default[1] # None
         THEN Err(err_span(arg, "Default already set"))
         ELSE IF arg.lit.ty = "Str"
         THEN IF parse_expr(arg).ok
              THEN Ok([self EXCEPT !.default = Some(Some(parse_expr(arg).v))])
              ELSE parse_expr(arg)
         ELSE Err(err_span(arg, "Expected string value for default argument"))
    ELSE Err(err_span(arg, "Unrecognised pyarg attribute"))

\* Variant of parse_argument without the flatten guard.
parse_argument_no_flatten_guard(self, arg) ==
    IF arg.nm = "Path" THEN parse_path_arg(self, arg)
    ELSE IF arg.nm = "NameValue" THEN parse_name_value_arg(self, arg)
    ELSE Err(err_span(arg, "Unrecognised pyarg attribute"))

\* ArgAttribute::parse_argument(&mut self, arg): the updated attribute, or the
\* diagnostic it bails with.
parse_argument(self, arg) ==
    IF self.kind = "Flatten"
    THEN Err(err_span(arg, "can't put additional arguments on a flatten arg"))
    ELSE IF arg.nm = "Path" THEN parse_path_arg(self, arg)
    ELSE IF arg.nm = "NameValue" THEN parse_name_value_arg(self, arg)
    ELSE Err(err_span(arg, "Unrecognised pyarg attribute"))

\* for arg in iter { attribute.parse_argument(arg)?; }  Ok(attribute)
RECURSIVE parse_arguments(_, _)
parse_arguments(attribute, iter) ==
    IF iter = <<>> THEN Ok(attribute)
    ELSE IF parse_argument(attribute, Head(iter)).ok
    THEN parse_arguments(parse_argument(attribute, Head(iter)).v, Tail(iter))
    ELSE parse_argument(attribute, Head(iter))

\* The first argument's kind: a bare path naming a ParameterKind, else None.
first_arg_kind(first_arg) ==
    IF first_arg.nm = "Path" THEN from_ident(first_arg.id) ELSE None

\* The closure `inner` of from_attribute: Result<ArgAttribute, Diagnostic>.
inner(attr) ==
    IF ~parse_meta(attr).ok THEN parse_meta(attr)
    ELSE IF attr.meta = "List"
    THEN IF attr.nested = <<>>
         THEN Err(err_span(attr, "There must be at least one argument to #[pyarg()]"))
         ELSE IF first_arg_kind(Head(attr.nested)) = None
         THEN Err(err_span(Head(attr.nested),
                  "The first argument to #[pyarg()] must be the parameter type"))
         ELSE parse_arguments(
                  ArgAttribute(first_arg_kind(Head(attr.nested))[1], None),
                  Tail(attr.nested))
    ELSE Err(err_span(attr, "pyarg must be a list, like #[pyarg(...)]"))

\* ArgAttribute::from_attribute: None for an attribute that is not pyarg.
from_attribute(attr) ==
    IF attr.path # "pyarg" THEN None ELSE Some(inner(attr))

\* field.attrs.iter().filter_map(from_attribute).collect::<Result<Vec<_>, _>>():
\* the attributes in order, stopping at the first Err.
RECURSIVE collect_attrs(_, _)
collect_attrs(attrs, acc) ==
    IF attrs = <<>> THEN Ok(acc)
    ELSE IF from_attribute(Head(attrs)) = None
    THEN collect_attrs(Tail(attrs), acc)
    ELSE IF from_attribute(Head(attrs))[1].ok
    THEN collect_attrs(Tail(attrs), Append(acc, from_attribute(Head(attrs))[1].v))
    ELSE from_attribute(Head(attrs))[1]

\* ----------------------------------------------------------- generate_field
\* Variant of select_attr that takes the first of several attributes.
select_attr_first(field, pyarg_attrs) ==
    IF pyarg_attrs = <<>>
    THEN Ok(ArgAttribute("PositionalOrKeyword", None))
    ELSE Ok(pyarg_attrs[1])

\* Variant of select_attr whose implied attribute is positional-only.
select_attr_positional(field, pyarg_attrs) ==
    IF pyarg_attrs = <<>>
    THEN Ok(ArgAttribute("PositionalOnly", None))
    ELSE IF Len(pyarg_attrs) = 1
    THEN Ok(pyarg_attrs[1])
    ELSE Err(err_span(field, "Multiple pyarg attributes on field"))

\* The attribute a field is generated from: the implied one when the field
\* has no pyarg attribute, the only one when it has one, else a diagnostic.
select_attr(field, pyarg_attrs) ==
    IF pyarg_attrs = <<>>
    THEN Ok(ArgAttribute("PositionalOrKeyword", None))
    ELSE IF Len(pyarg_attrs) = 1
    THEN Ok(pyarg_attrs[1])
    ELSE Err(err_span(field, "Multiple pyarg attributes on field"))

\* field.ident begins with "_phantom".
is_phantom(name) == starts_with(name, id_phantom)

\* Emitted tokens.  A binding is [name, expr]; expr is a chain of calls, each
\* <<call, argument tokens>>.
Tok(call, arg) == <<call, arg>>

phantom_output(name) ==
    [name |-> name, expr |-> <<Tok("::std::marker::PhantomData", <<>>)>>]

flatten_output(name) ==
    [name |-> name,
     expr |-> <<Tok("FromArgs::from_args(vm, args)", <<>>), Tok("?", <<>>)>>]

\* .map(|x| TryFromObject::try_from_object(vm, x)).transpose()?
middle ==
    <<Tok(".map(try_from_object)", <<>>), Tok(".transpose()", <<>>), Tok("?", <<>>)>>

\* Variant of ending whose failure is TooFewArgs for every kind.
ending_too_few(attr, name) ==
    IF attr.default # None
    THEN <<Tok(".map(FromArgOptional::from_inner)", <<>>),
           Tok(".unwrap_or_else",
               IF attr.default[1] = None THEN DefaultDefault ELSE attr.default[1][1])>>
    ELSE <<Tok(".ok_or_else", <<"ArgumentError::TooFewArgs">>), Tok("?", <<>>)>>

\* The tail of the chain: the default when there is one, else the failure.
ending(attr, name) ==
    IF attr.default # None
    THEN <<Tok(".map(FromArgOptional::from_inner)", <<>>),
           Tok(".unwrap_or_else",
               IF attr.default[1] = None THEN DefaultDefault ELSE attr.default[1][1])>>
    ELSE <<Tok(".ok_or_else",
               IF attr.kind = "KeywordOnly"
               THEN <<"ArgumentError::RequiredKeywordArgument">> \o name
               ELSE <<"ArgumentError::TooFewArgs">>),
           Tok("?", <<>>)>>

\* The head of the chain, by kind.
retrieval(kind, name) ==
    CASE kind = "PositionalOnly" -> Tok("args.take_positional", <<>>)
      [] kind = "PositionalOrKeyword" -> Tok("args.take_positional_keyword", name)
      [] kind = "KeywordOnly" -> Tok("args.take_keyword", name)

\* Variant of file_output that leaves the conversion stage out.
file_output_unconverted(attr, name) ==
    [name |-> name, expr |-> <<retrieval(attr.kind, name)>> \o ending(attr, name)]

\* #name: <retrieval>#middle#ending,
file_output(attr, name) ==
    [name |-> name,
     expr |-> <<retrieval(attr.kind, name)>> \o middle \o ending(attr, name)]

\* Variant of emit_field that tests flatten before the _phantom name.
emit_field_flatten_first(attr, name) ==
    IF attr.kind = "Flatten" THEN flatten_output(name)
    ELSE IF is_phantom(name) THEN phantom_output(name)
    ELSE file_output(attr, name)

\* The binding of a field once its attribute is known.
emit_field(attr, name) ==
    IF is_phantom(name) THEN phantom_output(name)
    ELSE IF attr.kind = "Flatten" THEN flatten_output(name)
    ELSE file_output(attr, name)

\* generate_field(field): Result<TokenStream2, Diagnostic>.
generate_field(field) ==
    IF ~collect_attrs(field.attrs, <<>>).ok
    THEN collect_attrs(field.attrs, <<>>)
    ELSE IF ~select_attr(field, collect_attrs(field.attrs, <<>>).v).ok
    THEN select_attr(field, collect_attrs(field.attrs, <<>>).v)
    ELSE Ok(emit_field(select_attr(field, collect_attrs(field.attrs, <<>>).v).v,
                       field.ident))

\* ------------------------------------------------- the emitted code, run
\* Values of the emitted code: Option and Result are tagged tuples.
VNone == <<"None">>
VSome(x) == <<"Some", x>>
VOk(x) == <<"Ok", x>>
VErr(e) == <<"Err", e>>

\* A dynamic object: its content and whether try_from_object accepts it.
PyObject(v, conv) == <<"PyObject", v, conv>>

\* TryFromObject::try_from_object(vm, x): Result<T, PyErr>.
try_from_object(x) ==
    IF x[3] = "converts" THEN VOk(<<"T", x[2]>>) ELSE VErr(<<"PyErr", x[2]>>)

\* The emitted chain applied left to right.  supplied is what the collaborator
\* answers to the head of the chain (the argument bundle's Option<PyObject>,
\* or the nested from_args' Result).  The outcome is <<"Return", Err(e)>> when
\* a `?` leaves from_args early, else <<"Value", v>>.
RECURSIVE run_chain(_, _, _)
run_chain(expr, cur, supplied) ==
    IF expr = <<>> THEN <<"Value", cur>>
    ELSE IF Head(expr)[1] \in {"args.take_positional", "args.take_positional_keyword",
                               "args.take_keyword", "FromArgs::from_args(vm, args)"}
    THEN run_chain(Tail(expr), supplied, supplied)
    ELSE IF Head(expr)[1] = "::std::marker::PhantomData"
    THEN run_chain(Tail(expr), <<"PhantomData">>, supplied)
    ELSE IF Head(expr)[1] = ".map(try_from_object)"
    THEN run_chain(Tail(expr),
                   IF cur[1] = "Some" THEN VSome(try_from_object(cur[2])) ELSE VNone,
                   supplied)
    ELSE IF Head(expr)[1] = ".transpose()"
    THEN run_chain(Tail(expr),
                   IF cur[1] = "None" THEN VOk(VNone)
                   ELSE IF cur[2][1] = "Ok" THEN VOk(VSome(cur[2][2]))
                   ELSE VErr(cur[2][2]),
                   supplied)
    ELSE IF Head(expr)[1] = "?"
    THEN IF cur[1] = "Err" THEN <<"Return", cur>>
         ELSE run_chain(Tail(expr), cur[2], supplied)
    ELSE IF Head(expr)[1] = ".map(FromArgOptional::from_inner)"
    THEN run_chain(Tail(expr),
                   IF cur[1] = "Some" THEN VSome(<<"from_inner", cur[2]>>) ELSE VNone,
                   supplied)
    ELSE IF Head(expr)[1] = ".unwrap_or_else"
    THEN run_chain(Tail(expr),
                   IF cur[1] = "Some" THEN cur[2] ELSE <<"eval", Head(expr)[2]>>,
                   supplied)
    ELSE IF Head(expr)[1] = ".ok_or_else"
    THEN run_chain(Tail(expr),
                   IF cur[1] = "Some" THEN VOk(cur[2]) ELSE VErr(Head(expr)[2]),
                   supplied)
    ELSE <<"Value", cur>>

\* What the collaborator may answer to a binding's head.
Supplies(binding) ==
    IF Head(binding.expr)[1] = "FromArgs::from_args(vm, args)"
    THEN {VOk(<<"Nested">>), VErr(<<"ArgumentError::TooManyArgs">>)}
    ELSE IF Head(binding.expr)[1] = "::std::marker::PhantomData"
    THEN {VNone}
    ELSE {VNone, VSome(PyObject("5", "converts")), VSome(PyObject("5", "fails"))}

\* ------------------------------------------------------------- the inputs
SeqUpTo(S, n) == UNION {[1..k -> S] : k \in 0..n}

\* Modifiers after the classification keyword.
Mods ==
    {MetaPath("default"), MetaPath("optional"), MetaPath("bogus"),
     MetaNameValue("default", LitStr("false")), MetaNameValue("default", LitStr("1 + 1")),
     MetaNameValue("default", LitStr("((")),
     MetaNameValue("default", LitBool("false")), MetaNameValue("bogus", LitStr("false")),
     MetaList("default"), NestedLit(LitStr("false")), InvalidTokens}

\* First arguments.
Firsts ==
    {MetaPath("positional"), MetaPath("any"), MetaPath("named"), MetaPath("flatten"),
     MetaPath("bogus"), MetaNameValue("default", LitStr("false")),
     NestedLit(LitStr("any")), InvalidTokens}

RawAttr(path, meta, nested) == [path |-> path, meta |-> meta, nested |-> nested]
RawField(ident, attrs) == [ident |-> ident, attrs |-> attrs]

PyargList(nested) == RawAttr("pyarg", "List", nested)

\* Every #[pyarg(...)] with a first argument and up to MaxMods modifiers, and
\* the forms #[pyarg()], #[pyarg] and #[pyarg = "x"].
AllAttrs ==
    {PyargList(<<f>> \o ms) : f \in Firsts, ms \in SeqUpTo(Mods, MaxMods)}
    \cup {PyargList(<<>>), RawAttr("pyarg", "Path", <<>>),
          RawAttr("pyarg", "NameValue", <<>>)}

\* An attribute that is not pyarg; its tokens are never parsed.
OtherAttr == RawAttr("doc", "List", <<InvalidTokens>>)

SmallAttrs ==
    {OtherAttr,
     PyargList(<<MetaPath("any")>>),
     PyargList(<<MetaPath("named"), MetaNameValue("default", LitStr("false"))>>),
     PyargList(<<MetaPath("flatten")>>),
     PyargList(<<MetaPath("bogus")>>),
     PyargList(<<MetaPath("positional"), MetaPath("bogus")>>),
     RawAttr("pyarg", "Path", <<>>)}

SmallFields ==
    {RawField(id_count, <<>>),
     RawField(id_count, <<PyargList(<<MetaPath("any")>>)>>),
     RawField(id_verbose,
              <<PyargList(<<MetaPath("named"), MetaNameValue("default", LitStr("false"))>>)>>),
     RawField(id_rest, <<PyargList(<<MetaPath("flatten")>>)>>),
     RawField(id_phantom_t, <<OtherAttr>>),
     RawField(id_count, <<PyargList(<<MetaPath("bogus")>>)>>),
     RawField(id_verbose, <<PyargList(<<MetaPath("any")>>), PyargList(<<MetaPath("any")>>)>>),
     RawField(id_rest, <<PyargList(<<MetaPath("flatten"), MetaPath("default")>>)>>)}

RawFieldLists ==
    {<<RawField(n, <<a>>)>> : n \in {id_verbose, id_phantom_t}, a \in AllAttrs}
    \cup {<<RawField(n, as)>> : n \in {id_count, id_phantom_t, id_phanto},
                                as \in SeqUpTo(SmallAttrs, MaxAttrs)}
    \cup SeqUpTo(SmallFields, MaxFields)

\* Source spans: <<field>>, <<field, attribute>>, <<field, attribute, argument>>.
SpanArgs(nested, f, a) ==
    [m \in 1..Len(nested) |->
        [nm |-> nested[m].nm, id |-> nested[m].id, lit |-> nested[m].lit,
         span |-> <<f, a, m>>]]

SpanAttrs(attrs, f) ==
    [a \in 1..Len(attrs) |->
        [path |-> attrs[a].path, meta |-> attrs[a].meta,
         nested |-> SpanArgs(attrs[a].nested, f, a), span |-> <<f, a>>]]

SpanFields(fields) ==
    [f \in 1..Len(fields) |->
        [ident |-> fields[f].ident, attrs |-> SpanAttrs(fields[f].attrs, f),
         span |-> <<f>>]]

DeriveInput(data, fields) ==
    [data |-> data, ident |-> "Args", fields |-> SpanFields(fields), span |-> <<>>]

\* Data::Struct with Fields::Named, and the shapes that are not.
Inputs ==
    {DeriveInput("StructNamed", fs) : fs \in RawFieldLists}
    \cup {DeriveInput(d, <<>>) : d \in {"StructUnnamed", "StructUnit", "Enum", "Union"}}

\* ------------------------------------------------------------ the machine
Init ==
    /\ input \in Inputs
    /\ pc = "start"
    /\ idx = 0
    /\ fields_out = <<>>
    /\ result = None
    /\ retrieved = <<>>
    /\ bound = <<>>
    /\ call_result = None

\* impl_from_args: the match on input.data.
MatchData ==
    /\ pc = "start"
    /\ IF input.data = "StructNamed"
       THEN /\ pc' = "fields"
            /\ result' = result
       ELSE /\ pc' = "done"
            /\ result' = Some(Err(err_span(input,
                   "FromArgs input must be a struct with named fields")))
    /\ UNCHANGED <<input, idx, fields_out, retrieved, bound, call_result>>

\* Variant of NextField that notes a field's error and goes on to the next.
NextField_goes_on ==
    /\ pc = "fields"
    /\ idx < Len(input.fields)
    /\ idx' = idx + 1
    /\ IF generate_field(input.fields[idx + 1]).ok
       THEN /\ fields_out' = Append(fields_out, generate_field(input.fields[idx + 1]).v)
            /\ UNCHANGED result
       ELSE /\ result' = Some(Err(generate_field(input.fields[idx + 1]).v))
            /\ UNCHANGED fields_out
    /\ UNCHANGED <<input, pc, retrieved, bound, call_result>>

\* One step of fields.named.iter().map(generate_field).collect::<Result<..>>()?:
\* the next field is generated; its Err ends impl_from_args at once.
NextField ==
    /\ pc = "fields"
    /\ idx < Len(input.fields)
    /\ idx' = idx + 1
    /\ IF generate_field(input.fields[idx + 1]).ok
       THEN /\ fields_out' = Append(fields_out, generate_field(input.fields[idx + 1]).v)
            /\ UNCHANGED <<pc, result>>
       ELSE /\ pc' = "done"
            /\ result' = Some(Err(generate_field(input.fields[idx + 1]).v))
            /\ UNCHANGED fields_out
    /\ UNCHANGED <<input, retrieved, bound, call_result>>

\* The iterator is exhausted: the impl block around Ok(#name { #fields }).
EmitImpl ==
    /\ pc = "fields"
    /\ idx = Len(input.fields)
    /\ pc' = "done"
    /\ result' = Some(Ok([name |-> input.ident, fields |-> fields_out]))
    /\ UNCHANGED <<input, idx, fields_out, retrieved, bound, call_result>>

\* The emitted from_args running: the struct expression's next field.
BindField ==
    /\ pc = "done"
    /\ result # None
    /\ result[1].ok
    /\ call_result = None
    /\ Len(retrieved) < Len(result[1].v.fields)
    /\ \E supplied \in Supplies(result[1].v.fields[Len(retrieved) + 1]) :
          /\ retrieved' = Append(retrieved, supplied)
          /\ IF run_chain(result[1].v.fields[Len(retrieved) + 1].expr, VNone, supplied)[1]
                 = "Return"
             THEN /\ call_result' = Some(
                        run_chain(result[1].v.fields[Len(retrieved) + 1].expr,
                                  VNone, supplied)[2])
                  /\ UNCHANGED bound
             ELSE /\ bound' = Append(bound,
                        run_chain(result[1].v.fields[Len(retrieved) + 1].expr,
                                  VNone, supplied)[2])
                  /\ UNCHANGED call_result
    /\ UNCHANGED <<input, pc, idx, fields_out, result>>

\* Every field is bound: Ok(Name { .. }).
ReturnOk ==
    /\ pc = "done"
    /\ result # None
    /\ result[1].ok
    /\ call_result = None
    /\ Len(retrieved) = Len(result[1].v.fields)
    /\ call_result' = Some(VOk(bound))
    /\ UNCHANGED <<input, pc, idx, fields_out, result, retrieved, bound>>

Next ==
    \/ MatchData
    \/ NextField
    \/ EmitImpl
    \/ BindField
    \/ ReturnOk

Spec == Init /\ [][Next]_vars

\* ------------------------------------------------------------- vocabulary
\* What the properties below say about a declaration, read off its tokens.

\* Field i was generated and its binding is fields_out[i].
FieldOkAt(i) == i <= idx /\ i <= Len(fields_out)

\* Field i was the last one generated, it failed, and generation ended with
\* an error and no implementation.
FieldFailed(i) ==
    /\ i = idx
    /\ Len(fields_out) = i - 1
    /\ pc = "done"
    /\ result # None
    /\ ~result[1].ok

\* The diagnostic generation ended with.
Diag == result[1].v

PyargAttrs(field) == {a \in 1..Len(field.attrs) : field.attrs[a].path = "pyarg"}

\* The positions of an attribute's modifiers (after the first argument).
ModsOf(attr) == 2..Len(attr.nested)

KindWords == {"positional", "any", "named", "flatten"}

\* #[pyarg(kind, ...)]: a list whose first argument is a classification keyword.
HasKind(attr) ==
    /\ attr.path = "pyarg"
    /\ attr.meta = "List"
    /\ attr.nested # <<>>
    /\ attr.nested[1].nm = "Path"
    /\ attr.nested[1].id \in KindWords

KindOf(attr) == attr.nested[1].id

IsBare(arg, word) == arg.nm = "Path" /\ arg.id = word

\* default = <literal>
IsDefaultKey(arg) == arg.nm = "NameValue" /\ arg.id = "default"

\* default = "<string>"
IsDefaultStr(arg) == arg.nm = "NameValue" /\ arg.id = "default" /\ arg.lit.ty = "Str"

\* default = "<expr>" whose string is an expression.
IsDefaultExpr(arg) == IsDefaultStr(arg) /\ arg.lit.val \in ExprSources

\* A modifier the generator accepts on its own.
IsSetter(arg) == IsBare(arg, "default") \/ IsBare(arg, "optional") \/ IsDefaultExpr(arg)

HasInvalid(attr) == \E m \in 1..Len(attr.nested) : attr.nested[m].nm = "Invalid"

\* A pyarg attribute the generator accepts.
WellFormedAttr(attr) ==
    /\ HasKind(attr)
    /\ ~HasInvalid(attr)
    /\ KindOf(attr) = "flatten" => Len(attr.nested) = 1
    /\ \A m \in ModsOf(attr) : IsSetter(attr.nested[m])
    /\ Cardinality({m \in ModsOf(attr) : IsDefaultExpr(attr.nested[m])}) <= 1

\* A field the generator accepts.
WellFormedField(field) ==
    /\ \A a \in PyargAttrs(field) : WellFormedAttr(field.attrs[a])
    /\ Cardinality(PyargAttrs(field)) <= 1

\* The field has exactly one pyarg attribute, attrs[a].
SoleAttr(field, a) == PyargAttrs(field) = {a}

\* ------------------------------------------------------------------- C1
\* C1 as stated: every #[pyarg(kind, m1, ..., mn)] with a non-flatten kind in
\* which two or more modifiers set the default (each a bare default or a
\* default = "<expr>", in any combination and order) fails generation.
TwoDefaultSetters(attr) ==
    /\ HasKind(attr)
    /\ KindOf(attr) # "flatten"
    /\ Cardinality({m \in ModsOf(attr) :
            IsBare(attr.nested[m], "default") \/ IsDefaultStr(attr.nested[m])}) >= 2

C1_AsStated ==
    \A i \in 1..idx : \A a \in PyargAttrs(input.fields[i]) :
        TwoDefaultSetters(input.fields[i].attrs[a]) => FieldFailed(i)

TwoDefaultStrs(attr) ==
    /\ HasKind(attr)
    /\ KindOf(attr) # "flatten"
    /\ Cardinality({m \in ModsOf(attr) : IsDefaultStr(attr.nested[m])}) >= 2

\* The second default = "<string>" of the attribute.
SecondDefaultStr(attr) ==
    CHOOSE m \in ModsOf(attr) :
        /\ IsDefaultStr(attr.nested[m])
        /\ Cardinality({k \in 2..(m - 1) : IsDefaultStr(attr.nested[k])}) = 1

\* C1, amended: an annotation with a non-flatten kind in which two or more
\* modifiers are default = "<expr>" pairs fails generation, with "Default
\* already set" at the second pair when everything before it is accepted;
\* a bare default never conflicts: with only bare default / optional
\* modifiers and at most one default = "<expr>", in any order and however
\* often repeated, the annotation is accepted.
C1_DefaultTwice ==
    \A i \in 1..idx : \A a \in PyargAttrs(input.fields[i]) :
        LET attr == input.fields[i].attrs[a] IN
        /\ TwoDefaultStrs(attr) => FieldFailed(i)
        /\ ( /\ TwoDefaultStrs(attr)
             /\ SoleAttr(input.fields[i], a)
             /\ ~HasInvalid(attr)
             /\ \A k \in 2..(SecondDefaultStr(attr) - 1) : IsSetter(attr.nested[k]) )
           => /\ FieldFailed(i)
              /\ Diag.msg = "Default already set"
              /\ Diag.span = attr.nested[SecondDefaultStr(attr)].span
        /\ ( /\ WellFormedAttr(attr)
             /\ SoleAttr(input.fields[i], a) )
           => FieldOkAt(i)

\* An annotation with two default = "<expr>" pairs was rejected as such.
C1_Witness ==
    /\ idx >= 1
    /\ FieldFailed(idx)
    /\ Diag.msg = "Default already set"
    /\ \E a \in PyargAttrs(input.fields[idx]) : TwoDefaultStrs(input.fields[idx].attrs[a])

PhantomBinding(name) == [name |-> name, expr |-> << <<"::std::marker::PhantomData", <<>>>> >>]

\* C3 as stated: a field whose name begins with _phantom yields the
\* placeholder whatever pyarg attributes it carries, never an error.
C3_AsStated ==
    \A i \in 1..idx :
        starts_with(input.fields[i].ident, id_phantom)
        => /\ FieldOkAt(i)
           /\ fields_out[i] = PhantomBinding(input.fields[i].ident)

\* C3, amended: a field whose name begins with _phantom and whose pyarg
\* attributes are accepted (at most one, well-formed) yields the placeholder
\* whatever the classification and default; its attributes are parsed first,
\* so a malformed attribute, or more than one, is the same error as on any
\* other field.
C3_Phantom ==
    \A i \in 1..idx :
        starts_with(input.fields[i].ident, id_phantom)
        => /\ WellFormedField(input.fields[i])
              => /\ FieldOkAt(i)
                 /\ fields_out[i] = PhantomBinding(input.fields[i].ident)
           /\ ~WellFormedField(input.fields[i]) => FieldFailed(i)

\* A _phantom field annotated with a classification got the placeholder.
C3_Witness ==
    \E i \in 1..idx :
        /\ starts_with(input.fields[i].ident, id_phantom)
        /\ \E a \in PyargAttrs(input.fields[i]) :
              /\ HasKind(input.fields[i].attrs[a])
              /\ KindOf(input.fields[i].attrs[a]) = "flatten"
        /\ FieldOkAt(i)
        /\ fields_out[i] = PhantomBinding(input.fields[i].ident)

\* ------------------------------------------------------------------- C4
\* C4 as stated: a field with two or more pyarg attributes fails with the
\* "Multiple pyarg attributes on field" diagnostic and no other.
C4_AsStated ==
    \A i \in 1..idx :
        Cardinality(PyargAttrs(input.fields[i])) >= 2
        => /\ FieldFailed(i)
           /\ Diag.msg = "Multiple pyarg attributes on field"

\* The first pyarg attribute of the field that is not accepted.
FirstBadAttr(field) ==
    CHOOSE a \in PyargAttrs(field) :
        /\ ~WellFormedAttr(field.attrs[a])
        /\ \A b \in PyargAttrs(field) : b < a => WellFormedAttr(field.attrs[b])

\* C4, amended: a field with two or more pyarg attributes always fails
\* generation; the diagnostic is "Multiple pyarg attributes on field", at the
\* field, when every one of those attributes is well-formed, and otherwise it
\* is the diagnostic of the first malformed attribute, raised inside it.
C4_MultipleAttrs ==
    \A i \in 1..idx :
        LET field == input.fields[i] IN
        Cardinality(PyargAttrs(field)) >= 2
        => /\ FieldFailed(i)
           /\ (\A a \in PyargAttrs(field) : WellFormedAttr(field.attrs[a]))
              => /\ Diag.msg = "Multiple pyarg attributes on field"
                 /\ Diag.span = field.span
           /\ (\E a \in PyargAttrs(field) : ~WellFormedAttr(field.attrs[a]))
              => /\ Diag.msg # "Multiple pyarg attributes on field"
                 /\ Len(Diag.span) >= 2
                 /\ SubSeq(Diag.span, 1, 2) = <<i, FirstBadAttr(field)>>

\* Two well-formed pyarg attributes on one field were rejected as multiple.
C4_Witness ==
    /\ idx >= 1
    /\ FieldFailed(idx)
    /\ Cardinality(PyargAttrs(input.fields[idx])) >= 2
    /\ Diag.msg = "Multiple pyarg attributes on field"

\* ------------------------------------------------------------------- C5
\* Argument m of a #[pyarg(kind, ...)] list is one the generator rejects,
\* given that it accepted the arguments before it.
BadArg(attr, m) ==
    \/ attr.nested[m].nm = "Invalid"
    \/ KindOf(attr) = "flatten"
    \/ ~(IsSetter(attr.nested[m]) \/ IsDefaultKey(attr.nested[m]))
    \/ /\ IsDefaultKey(attr.nested[m])
       /\ \/ ~IsDefaultExpr(attr.nested[m])
          \/ \E k \in 2..(m - 1) : IsDefaultExpr(attr.nested[k])

FirstBadArg(attr) ==
    CHOOSE m \in ModsOf(attr) :
        BadArg(attr, m) /\ \A k \in 2..(m - 1) : ~BadArg(attr, k)

FirstInvalidArg(attr) ==
    CHOOSE m \in 1..Len(attr.nested) :
        /\ attr.nested[m].nm = "Invalid"
        /\ \A k \in 1..(m - 1) : attr.nested[k].nm # "Invalid"

\* Where a malformed attribute's diagnostic points when its arguments are
\* examined strictly in source order.
SpanInSourceOrder(attr) ==
    IF attr.meta # "List" \/ attr.nested = <<>> THEN attr.span
    ELSE IF ~HasKind(attr) THEN attr.nested[1].span
    ELSE attr.nested[FirstBadArg(attr)].span

\* Where it points when a syntax error anywhere in the attribute comes first.
SpanSyntaxFirst(attr) ==
    IF HasInvalid(attr) THEN attr.nested[FirstInvalidArg(attr)].span
    ELSE SpanInSourceOrder(attr)

BadFields == {i \in 1..Len(input.fields) : ~WellFormedField(input.fields[i])}

FirstBadField == CHOOSE i \in BadFields : \A j \in BadFields : i <= j

\* Short-circuit at the first erroneous field: what C5 says apart from the
\* place of the diagnostic inside an attribute.
ShortCircuit ==
    /\ pc = "fields" => /\ Len(fields_out) = idx
                        /\ result = None
                        /\ \A i \in 1..idx : WellFormedField(input.fields[i])
    /\ (pc = "done" /\ input.data = "StructNamed")
       => /\ result # None
          /\ result[1].ok <=> BadFields = {}
          /\ result[1].ok => /\ idx = Len(input.fields)
                             /\ Len(result[1].v.fields) = Len(input.fields)
          /\ ~result[1].ok => /\ idx = FirstBadField
                              /\ Len(fields_out) = idx - 1
                              /\ Len(Diag.span) >= 1
                              /\ Diag.span[1] = idx

\* The place of the diagnostic inside the failing field, given the rule for
\* the place inside an attribute.
DiagPlace(field, span) ==
    IF \A a \in PyargAttrs(field) : WellFormedAttr(field.attrs[a])
    THEN Diag.span = field.span /\ Diag.msg = "Multiple pyarg attributes on field"
    ELSE Diag.span = span

\* C5 as stated: the diagnostic is that of the first erroneous field and,
\* within it, of the first erroneous attribute / modifier in source order.
C5_AsStated ==
    /\ ShortCircuit
    /\ (pc = "done" /\ input.data = "StructNamed" /\ result # None /\ ~result[1].ok)
       => DiagPlace(input.fields[idx],
                    SpanInSourceOrder(input.fields[idx].attrs[FirstBadAttr(input.fields[idx])]))

\* C5, amended: impl_from_args short-circuits on the first error: the result
\* is an error and never a partial implementation when a field is malformed,
\* no field after the first erroneous one is processed, and the result is Ok
\* only if every field generates.  The diagnostic is that of the first
\* erroneous field and, within it, of the first erroneous attribute; within
\* that attribute a syntax error anywhere in its argument list (parse_meta
\* parses the whole attribute first) is reported before any fault of the
\* classification keyword or of a modifier, which are otherwise reported in
\* source order.
C5_ShortCircuit ==
    /\ ShortCircuit
    /\ (pc = "done" /\ input.data = "StructNamed" /\ result # None /\ ~result[1].ok)
       => DiagPlace(input.fields[idx],
                    SpanSyntaxFirst(input.fields[idx].attrs[FirstBadAttr(input.fields[idx])]))

\* Generation stopped at a malformed field that is followed by another field.
C5_Witness ==
    /\ pc = "done"
    /\ result # None
    /\ ~result[1].ok
    /\ idx >= 1
    /\ idx < Len(input.fields)
    /\ Len(Diag.span) = 3

\* A syntax error after an unrecognised modifier was the one reported.
C5_SyntaxWitness ==
    /\ idx >= 1
    /\ FieldFailed(idx)
    /\ Len(Diag.span) = 3
    /\ Diag.span[3] = 3
    /\ Diag.msg = "syn: expected literal"
    /\ IsBare(input.fields[idx].attrs[Diag.span[2]].nested[2], "bogus")

\* ------------------------------------------------------ bindings, spelled
\* The conversion stage every looked-up field has.
ConversionStage ==
    << <<".map(try_from_object)", <<>>>>, <<".transpose()", <<>>>>, <<"?", <<>>>> >>

\* The emitted from_args reached field j and asked the collaborator for it.
Asked(j) == j <= Len(retrieved)

\* Field j of the call was bound to v.
BoundTo(j, v) == j <= Len(bound) /\ bound[j] = v

\* The call failed at field j with error e.
FailedAt(j, e) ==
    /\ j = Len(retrieved)
    /\ Len(bound) = j - 1
    /\ call_result = Some(VErr(e))

\* ------------------------------------------------------------------- C6
\* The field is `verbose` with the single annotation (named, default = lit).
VerboseNamedDefault(field, lit) ==
    /\ field.ident = id_verbose
    /\ Len(field.attrs) = 1
    /\ HasKind(field.attrs[1])
    /\ KindOf(field.attrs[1]) = "named"
    /\ Len(field.attrs[1].nested) = 2
    /\ IsDefaultKey(field.attrs[1].nested[2])
    /\ field.attrs[1].nested[2].lit = lit

\* C6 as stated: verbose annotated (named, default = false), a bare boolean
\* literal, generates, and with no value supplied the field is false.
C6_AsStated ==
    \A i \in 1..idx :
        VerboseNamedDefault(input.fields[i], LitBool("false"))
        => /\ FieldOkAt(i)
           /\ (Asked(i) /\ retrieved[i] = VNone) => BoundTo(i, <<"eval", <<"false">>>>)

\* C6, amended: verbose annotated (named, default = "false"), the default
\* written as a string literal, generates, and with no value supplied the
\* field is false; written as a bare boolean literal the annotation fails
\* generation with "Expected string value for default argument".
C6_VerboseDefault ==
    \A i \in 1..idx :
        /\ VerboseNamedDefault(input.fields[i], LitStr("false"))
           => /\ FieldOkAt(i)
              /\ (Asked(i) /\ retrieved[i] = VNone) => BoundTo(i, <<"eval", <<"false">>>>)
        /\ VerboseNamedDefault(input.fields[i], LitBool("false"))
           => /\ FieldFailed(i)
              /\ Diag.msg = "Expected string value for default argument"
              /\ Diag.span = input.fields[i].attrs[1].nested[2].span

\* verbose with default = "false" was bound to false when nothing was supplied.
C6_Witness ==
    \E i \in 1..idx :
        /\ VerboseNamedDefault(input.fields[i], LitStr("false"))
        /\ Asked(i)
        /\ retrieved[i] = VNone
        /\ BoundTo(i, <<"eval", <<"false">>>>)

\* ------------------------------------------------------------------- C7
FlattenBinding(name) ==
    [name |-> name,
     expr |-> << <<"FromArgs::from_args(vm, args)", <<>>>>, <<"?", <<>>>> >>]

\* The field's only pyarg attribute is #[pyarg(flatten)].
FlattenOnly(field) ==
    \E a \in PyargAttrs(field) :
        /\ SoleAttr(field, a)
        /\ HasKind(field.attrs[a])
        /\ KindOf(field.attrs[a]) = "flatten"
        /\ Len(field.attrs[a].nested) = 1

\* The binding is the nested from_args on the same bundle and nothing else:
\* its outcome is the field's value, or the call's error.
Recurses(i) ==
    /\ FieldOkAt(i)
    /\ fields_out[i] = FlattenBinding(input.fields[i].ident)
    /\ Asked(i) => /\ retrieved[i][1] = "Ok" => BoundTo(i, retrieved[i][2])
                   /\ retrieved[i][1] = "Err" => FailedAt(i, retrieved[i][2])

\* flatten followed by further arguments fails generation.
FlattenExtraRejected(i) ==
    \A a \in PyargAttrs(input.fields[i]) :
        LET attr == input.fields[i].attrs[a] IN
        (HasKind(attr) /\ KindOf(attr) = "flatten" /\ Len(attr.nested) >= 2)
        => /\ FieldFailed(i)
           /\ (SoleAttr(input.fields[i], a) /\ ~HasInvalid(attr))
              => /\ Diag.msg = "can't put additional arguments on a flatten arg"
                 /\ Diag.span = attr.nested[2].span

\* C7 as stated: every field annotated flatten alone binds by the recursive
\* from_args call, and flatten with further arguments fails generation.
C7_AsStated ==
    \A i \in 1..idx :
        /\ FlattenOnly(input.fields[i]) => Recurses(i)
        /\ FlattenExtraRejected(i)

\* C7, amended: every field annotated flatten alone whose name does not
\* begin with _phantom binds by the recursive from_args call on the same
\* bundle (a _phantom field annotated flatten gets the placeholder instead),
\* and flatten followed by further arguments of any shape fails generation.
C7_Flatten ==
    \A i \in 1..idx :
        /\ (FlattenOnly(input.fields[i]) /\ ~starts_with(input.fields[i].ident, id_phantom))
           => Recurses(i)
        /\ (FlattenOnly(input.fields[i]) /\ starts_with(input.fields[i].ident, id_phantom))
           => /\ FieldOkAt(i)
              /\ fields_out[i] = PhantomBinding(input.fields[i].ident)
        /\ FlattenExtraRejected(i)

\* A flatten field took the nested from_args' value.
C7_Witness ==
    \E i \in 1..idx :
        /\ FlattenOnly(input.fields[i])
        /\ Asked(i)
        /\ retrieved[i][1] = "Ok"
        /\ BoundTo(i, retrieved[i][2])

\* ------------------------------------------------------------------- C8
\* The binding of #[pyarg(any)] on a field called name.
AnyBinding(name) ==
    [name |-> name,
     expr |-> << <<"args.take_positional_keyword", name>> >>
              \o ConversionStage
              \o << <<".ok_or_else", <<"ArgumentError::TooFewArgs">> >>, <<"?", <<>>>> >>]

\* The field's only pyarg attribute is #[pyarg(any)].
AnyOnly(field) ==
    \E a \in PyargAttrs(field) :
        /\ SoleAttr(field, a)
        /\ HasKind(field.attrs[a])
        /\ KindOf(field.attrs[a]) = "any"
        /\ Len(field.attrs[a].nested) = 1

\* C8: a field with no pyarg attribute (other attributes may be present)
\* whose name does not begin with _phantom gets the binding of a field
\* annotated any with no modifiers: take_positional_keyword under its name,
\* no default, and absence of a value fails the call.
C8_NoAnnotation ==
    \A i \in 1..idx :
        (PyargAttrs(input.fields[i]) = {} /\ ~starts_with(input.fields[i].ident, id_phantom))
        => /\ FieldOkAt(i)
           /\ fields_out[i] = AnyBinding(input.fields[i].ident)
           /\ \A j \in 1..idx :
                 (AnyOnly(input.fields[j]) /\ input.fields[j].ident = input.fields[i].ident)
                 => FieldOkAt(j) /\ fields_out[j] = fields_out[i]
           /\ (Asked(i) /\ retrieved[i] = VNone)
              => FailedAt(i, <<"ArgumentError::TooFewArgs">>)

\* A struct with an unannotated field and an any field of the same name was
\* generated, the unannotated one carrying a non-pyarg attribute or none.
C8_Witness ==
    \E i \in 1..idx, j \in 1..idx :
        /\ PyargAttrs(input.fields[i]) = {}
        /\ ~starts_with(input.fields[i].ident, id_phantom)
        /\ AnyOnly(input.fields[j])
        /\ input.fields[j].ident = input.fields[i].ident
        /\ FieldOkAt(i)
        /\ FieldOkAt(j)
        /\ fields_out[j] = fields_out[i]

\* ------------------------------------------------------------ C9 and C10
\* The classification keyword the field is generated under.
KindWordOf(field) ==
    IF PyargAttrs(field) = {} THEN "any"
    ELSE KindOf(field.attrs[CHOOSE a \in PyargAttrs(field) : TRUE])

\* The field's default = "<expr>" modifiers, as <<attribute, argument>>.
DefaultExprMods(field) ==
    UNION {{<<a, m>> : m \in {k \in ModsOf(field.attrs[a]) :
                                 IsDefaultExpr(field.attrs[a].nested[k])}} :
           a \in PyargAttrs(field)}

\* The field has a bare default (or optional) modifier.
HasBareDefault(field) ==
    \E a \in PyargAttrs(field) : \E m \in ModsOf(field.attrs[a]) :
        IsBare(field.attrs[a].nested[m], "default")
        \/ IsBare(field.attrs[a].nested[m], "optional")

\* The expression of the field's default = "<expr>".
DefaultExprOf(field) ==
    LET am == CHOOSE x \in DefaultExprMods(field) : TRUE
    IN <<field.attrs[am[1]].nested[am[2]].lit.val>>

\* A generated field that is looked up in the bundle: neither flatten nor
\* a _phantom placeholder.
LookedUp(i) ==
    /\ result # None
    /\ result[1].ok
    /\ i <= Len(input.fields)
    /\ ~starts_with(input.fields[i].ident, id_phantom)
    /\ KindWordOf(input.fields[i]) # "flatten"

C9_DefaultWitness ==
    \E i \in 1..Len(retrieved) :
        /\ LookedUp(i)
        /\ retrieved[i] = VNone
        /\ HasBareDefault(input.fields[i])
        /\ BoundTo(i, <<"eval", <<"::std::default::Default::default()">> >>)

HasDefault(field) == DefaultExprMods(field) # {} \/ HasBareDefault(field)

\* C10: for a non-flatten, non-phantom field, a retrieved value whose
\* conversion fails fails the whole call with the conversion error, default
\* or not; a retrieved value that converts is the field's value (through
\* from_inner when the field has a default) and the default is not used.
C10_ConversionFirst ==
    \A i \in 1..Len(retrieved) :
        (LookedUp(i) /\ retrieved[i][1] = "Some")
        => LET obj == retrieved[i][2] IN
           /\ obj[3] = "fails" => FailedAt(i, <<"PyErr", obj[2]>>)
           /\ obj[3] = "converts"
              => /\ HasDefault(input.fields[i])
                    => BoundTo(i, <<"from_inner", <<"T", obj[2]>> >>)
                 /\ ~HasDefault(input.fields[i]) => BoundTo(i, <<"T", obj[2]>>)

\* A field with a default was supplied a value that does not convert, and
\* the call failed with the conversion error.
C10_Witness ==
    \E i \in 1..Len(retrieved) :
        /\ LookedUp(i)
        /\ HasDefault(input.fields[i])
        /\ retrieved[i][1] = "Some"
        /\ retrieved[i][2][3] = "fails"
        /\ FailedAt(i, <<"PyErr", retrieved[i][2][2]>>)
====
